---- MODULE Spec2Model ----
(***************************************************************************)
(* Model of the two patient views of frontend/src/pages/patient:           *)
(* BookAppointment (list of available slots, Book Now) and Messages        *)
(* (conversation list, message pane, message input).  Each view keeps its  *)
(* React state in variables; every service call is a request record that   *)
(* is first answered by the service (Serve...) and later delivered to the  *)
(* awaiting continuation (...Response), so overlapping calls can complete  *)
(* in any order.                                                           *)
(***************************************************************************)
EXTENDS Integers, Sequences, FiniteSets, TLC

\* ---------------------------------------------------------------- bounds
MaxSlots == 2      \* slots the service offers at the start
MaxClicks == 2     \* Book Now clicks in one run
MaxSelects == 2    \* clicks on a conversation row that change the selection
MaxMsgs == 2       \* messages a conversation can grow to
MaxText == 1       \* characters typed into the message input
MaxQuery == 2      \* characters of a search query, where every query is tried

\* ------------------------------------------------------------- constants
PATIENT_ID == 3

Null == <<>>
Some(x) == <<x>>

ErrorLoadingMsg == "Error loading available appointments"
NoticeReserved == "Reserva realizada correctamente"
NoticeReserveFailed == "Error al reservar el turno"

VARIABLES
  \* BookAppointment component state
  appointments, loading, error, timeOfDay,
  \* service side and calls in flight of the booking view
  pool, loads, reserves, notices,
  \* Messages component state
  conversations, messages, selectedConversation, searchQuery, messageText,
  loadingConversations, loadingMessages,
  \* service side and calls in flight of the messaging view
  convReq, msgReqs,
  \* the key event the message input handled last, if it was the last event
  lastKey

bookingVars == <<appointments, loading, error, timeOfDay, pool, loads, reserves,
                 notices>>
messagesVars == <<conversations, messages, selectedConversation, searchQuery,
                  messageText, loadingConversations, loadingMessages,
                  convReq, msgReqs, lastKey>>
vars == <<bookingVars, messagesVars>>

\* ============================================================== service
WeekdayShort == <<"Sun", "Mon", "Tue", "Wed", "Thu", "Fri", "Sat">>
MonthLong == <<"January", "February", "March", "April", "May", "June", "July",
               "August", "September", "October", "November", "December">>
DoctorNames == <<"Dr. Lee", "Dr. Paz", "Dr. Kim">>
SpecialtyNames == <<"Cardiology", "Dermatology", "Pediatrics">>

\* The record getAvailableAppointments returns for slot i; datetime is the
\* instant new Date(item.datetime) denotes, in local time.
RawSlot(i) ==
  [id |-> i,
   doctor |-> DoctorNames[((i - 1) % 3) + 1],
   specialty |-> SpecialtyNames[((i - 1) % 3) + 1],
   branch |-> "Centro",
   datetime |-> [weekday |-> ((i + 2) % 7) + 1, month |-> 5, day |-> i,
                 hour |-> (7 * i + 7) % 24, minute |-> (30 * i) % 60]]

SlotIds == 1..MaxSlots

RECURSIVE SlotsFrom(_, _)
SlotsFrom(i, avail) ==
  IF i > MaxSlots THEN <<>>
  ELSE (IF i \in avail THEN <<RawSlot(i)>> ELSE <<>>) \o SlotsFrom(i + 1, avail)

\* What getAvailableAppointments answers while `avail` is the available pool.
AvailableAppointments(avail) == SlotsFrom(1, avail)

\* ============================================================ projection
TwoDigit(n) == <<n \div 10, n % 10>>

\* toLocaleDateString("en-US", {weekday: "short", month: "long", day: "numeric"})
FormatDate(dt) == <<WeekdayShort[dt.weekday], MonthLong[dt.month], dt.day>>

\* toLocaleTimeString("en-US", {hour: "2-digit", minute: "2-digit"})
FormatTime(dt) ==
  <<TwoDigit(IF dt.hour % 12 = 0 THEN 12 ELSE dt.hour % 12),
    TwoDigit(dt.minute),
    IF dt.hour < 12 THEN "AM" ELSE "PM">>

FormatAppointment(item) ==
  [id |-> item.id,
   doctor |-> item.doctor,
   specialty |-> item.specialty,
   location |-> item.branch,
   avatar |-> "",
   date |-> FormatDate(item.datetime),
   time |-> FormatTime(item.datetime)]

FormatAppointments(res) == [i \in 1..Len(res) |-> FormatAppointment(res[i])]

\* ================================================================ render
\* Which of the three returns of BookAppointment is taken.
BookingView ==
  IF loading THEN "loading"
  ELSE IF error # Null THEN "error"
  ELSE "list"

\* The appointment rows rendered, each with its Book Now button.
RenderedAppointments == IF BookingView = "list" THEN appointments ELSE <<>>

RenderedError == IF BookingView = "error" THEN error ELSE Null

RenderedIds == {RenderedAppointments[i].id : i \in 1..Len(RenderedAppointments)}

\* ================================================================= Init
InitBooking ==
  /\ appointments = <<>>
  /\ loading = TRUE
  /\ error = Null
  /\ timeOfDay = <<"afternoon">>
  /\ pool = SlotIds
  /\ loads = <<>>
  /\ reserves = <<>>
  /\ notices = <<>>

\* =============================================================== actions
\* loadAppointments up to its await: one getAvailableAppointments call.
CallLoadAppointments(ls) == Append(ls, [status |-> "sent", data |-> <<>>])

\* useEffect(() => { loadAppointments(); }, [])
MountBooking ==
  /\ Len(loads) = 0
  /\ loads' = CallLoadAppointments(loads)
  /\ UNCHANGED <<appointments, loading, error, pool, reserves, notices>>
  /\ UNCHANGED <<timeOfDay, messagesVars>>

\* The service answers a getAvailableAppointments call: the pool as it is
\* now, or a failure.
ServeLoad(i) ==
  /\ i \in 1..Len(loads)
  /\ loads[i].status = "sent"
  /\ \/ loads' = [loads EXCEPT ![i] = [status |-> "ok",
                                       data |-> AvailableAppointments(pool)]]
     \/ loads' = [loads EXCEPT ![i] = [status |-> "err", data |-> <<>>]]
  /\ UNCHANGED <<appointments, loading, error, pool, reserves, notices>>
  /\ UNCHANGED <<timeOfDay, messagesVars>>

\* Variant of the try branch that clears a previous error (a retry that
\* recovers).
LoadAppointmentsThen_ClearsError(i) ==
  /\ loads[i].status = "ok"
  /\ appointments' = FormatAppointments(loads[i].data)
  /\ loading' = FALSE
  /\ error' = Null

\* loadAppointments after the await, try branch and finally.
LoadAppointmentsThen(i) ==
  /\ loads[i].status = "ok"
  /\ appointments' = FormatAppointments(loads[i].data)
  /\ loading' = FALSE
  /\ error' = error

\* Variant of the catch branch that logs the failure and sets no error.
LoadAppointmentsCatch_NoSetError(i) ==
  /\ loads[i].status = "err"
  /\ error' = error
  /\ loading' = FALSE
  /\ appointments' = appointments

\* Variant of the catch branch without the finally.
LoadAppointmentsCatch_KeepsLoading(i) ==
  /\ loads[i].status = "err"
  /\ error' = Some(ErrorLoadingMsg)
  /\ loading' = loading
  /\ appointments' = appointments

\* loadAppointments after the await, catch branch and finally.
LoadAppointmentsCatch(i) ==
  /\ loads[i].status = "err"
  /\ error' = Some(ErrorLoadingMsg)
  /\ loading' = FALSE
  /\ appointments' = appointments

\* Variant in which a failed load is rethrown to an awaiting handleReserve,
\* whose catch then shows the reservation-failure notice.
LoadResponse_FailureReachesReserve(i) ==
  /\ i \in 1..Len(loads)
  /\ LoadAppointmentsThen(i) \/ LoadAppointmentsCatch(i)
  /\ loads' = [loads EXCEPT ![i] = [status |-> "done", data |-> <<>>]]
  /\ notices' = IF loads[i].status = "err" /\ i > 1
                THEN Append(notices, NoticeReserveFailed)
                ELSE notices
  /\ UNCHANGED <<pool, reserves>>
  /\ UNCHANGED <<timeOfDay, messagesVars>>

LoadResponse(i) ==
  /\ i \in 1..Len(loads)
  /\ LoadAppointmentsThen(i) \/ LoadAppointmentsCatch(i)
  /\ loads' = [loads EXCEPT ![i] = [status |-> "done", data |-> <<>>]]
  /\ UNCHANGED <<pool, reserves, notices>>
  /\ UNCHANGED <<timeOfDay, messagesVars>>

\* Variant of the click handler that ignores a click while a reservation of
\* the same slot is awaiting its response.
ClickBookNow_GuardsInFlight(id) ==
  /\ id \in RenderedIds
  /\ Len(reserves) < MaxClicks
  /\ \A i \in 1..Len(reserves) :
       reserves[i].appointment = id =>
         reserves[i].status \in {"doneOk", "doneErr"}
  /\ reserves' = Append(reserves, [patient |-> PATIENT_ID, appointment |-> id,
                                   status |-> "sent"])
  /\ UNCHANGED <<appointments, loading, error, pool, loads, notices>>
  /\ UNCHANGED <<timeOfDay, messagesVars>>

\* onClick={() => handleReserve(appointment.id)} up to the await.
ClickBookNow(id) ==
  /\ id \in RenderedIds
  /\ Len(reserves) < MaxClicks
  /\ reserves' = Append(reserves, [patient |-> PATIENT_ID, appointment |-> id,
                                   status |-> "sent"])
  /\ UNCHANGED <<appointments, loading, error, pool, loads, notices>>
  /\ UNCHANGED <<timeOfDay, messagesVars>>

\* The service answers a reserveAppointment call; a reserved slot leaves
\* the available pool when the reservation succeeds.
ServeReserve(i) ==
  /\ i \in 1..Len(reserves)
  /\ reserves[i].status = "sent"
  /\ \/ /\ reserves' = [reserves EXCEPT ![i].status = "ok"]
        /\ pool' = pool \ {reserves[i].appointment}
     \/ /\ reserves' = [reserves EXCEPT ![i].status = "err"]
        /\ pool' = pool
  /\ UNCHANGED <<appointments, loading, error, loads, notices>>
  /\ UNCHANGED <<timeOfDay, messagesVars>>

\* handleReserve after the await, try branch.
HandleReserveThen(i) ==
  /\ reserves[i].status = "ok"
  /\ notices' = Append(notices, NoticeReserved)
  /\ loads' = CallLoadAppointments(loads)
  /\ reserves' = [reserves EXCEPT ![i].status = "doneOk"]

\* Variant of the catch branch that reloads the list after the notice.
HandleReserveCatch_Reloads(i) ==
  /\ reserves[i].status = "err"
  /\ notices' = Append(notices, NoticeReserveFailed)
  /\ loads' = CallLoadAppointments(loads)
  /\ reserves' = [reserves EXCEPT ![i].status = "doneErr"]

\* handleReserve after the await, catch branch.
HandleReserveCatch(i) ==
  /\ reserves[i].status = "err"
  /\ notices' = Append(notices, NoticeReserveFailed)
  /\ loads' = loads
  /\ reserves' = [reserves EXCEPT ![i].status = "doneErr"]

ReserveResponse(i) ==
  /\ i \in 1..Len(reserves)
  /\ HandleReserveThen(i) \/ HandleReserveCatch(i)
  /\ UNCHANGED <<appointments, loading, error, pool>>
  /\ UNCHANGED <<timeOfDay, messagesVars>>

\* ===================================================== Messages view
\* Strings the view computes on (names, specialties, the search query, the
\* message draft) are sequences of one-character strings.
Str_AlLi == <<"A", "l", " ", "L", "i">>
Str_BoRe == <<"B", "o", " ", "R", "e">>
Str_Eye == <<"E", "y", "e">>
Str_ENT == <<"E", "N", "T">>

\* The conversations the service holds for the patient, as the records
\* getPatientConversations returns; avatar is optional.
ConversationCatalog ==
  <<[id |-> 1, doctor |-> Str_AlLi, specialty |-> Str_Eye,
     last_message |-> "See you", time |-> "10:30", unread |-> 2,
     avatar |-> Null],
    [id |-> 2, doctor |-> Str_BoRe, specialty |-> Str_ENT,
     last_message |-> "Thanks", time |-> "09:15", unread |-> 0,
     avatar |-> Some(<<"B">>)]>>

ConvIds == 1..Len(ConversationCatalog)

RECURSIVE ConversationsFrom(_, _)
ConversationsFrom(c, ids) ==
  IF c > Len(ConversationCatalog) THEN <<>>
  ELSE (IF c \in ids THEN <<ConversationCatalog[c]>> ELSE <<>>)
         \o ConversationsFrom(c + 1, ids)

\* The lists getPatientConversations may answer with, the empty one included.
ConversationLists == {ConversationsFrom(1, ids) : ids \in SUBSET ConvIds}

\* The k-th message the service holds for conversation c.
RawMessage(c, k) ==
  [id |-> 10 * c + k,
   sender |-> IF k % 2 = 1 THEN "doctor" ELSE "patient",
   text |-> <<"msg", c, k>>,
   time |-> <<"t", k>>,
   conversation_id |-> c]

\* What getConversationMessages answers for conversation c holding n messages.
ConversationMessages(c, n) == [k \in 1..n |-> RawMessage(c, k)]

\* ----------------------------------------------------------- projection
RECURSIVE Split(_, _)
\* s.split(sep): the pieces of s between occurrences of the character sep.
Split(s, sep) ==
  IF \A i \in 1..Len(s) : s[i] # sep THEN <<s>>
  ELSE LET i == CHOOSE j \in 1..Len(s) :
                  s[j] = sep /\ \A k \in 1..(j - 1) : s[k] # sep
       IN <<SubSeq(s, 1, i - 1)>> \o Split(SubSeq(s, i + 1, Len(s)), sep)

RECURSIVE Join(_)
\* pieces.join(""), an undefined piece contributing nothing.
Join(pieces) ==
  IF pieces = <<>> THEN <<>> ELSE Head(pieces) \o Join(Tail(pieces))

\* doctor.split(" ").map(n => n[0]).join("")
Initials(doctor) ==
  LET words == Split(doctor, " ")
  IN Join([i \in 1..Len(words) |->
             IF Len(words[i]) > 0 THEN <<words[i][1]>> ELSE <<>>])

FormatConversation(item) ==
  [id |-> item.id,
   doctor |-> item.doctor,
   specialty |-> item.specialty,
   lastMessage |-> item.last_message,
   time |-> item.time,
   unread |-> item.unread,
   avatar |-> IF item.avatar # Null THEN item.avatar[1]
              ELSE Initials(item.doctor)]

FormatConversations(data) ==
  [i \in 1..Len(data) |-> FormatConversation(data[i])]

FormatMessage(msg) ==
  [id |-> msg.id, sender |-> msg.sender, text |-> msg.text, time |-> msg.time]

FormatMessages(data) == [i \in 1..Len(data) |-> FormatMessage(data[i])]

\* --------------------------------------------------------------- filter
UpperCase == <<"A", "B", "C", "D", "E", "F", "G", "H", "I", "J", "K", "L", "M",
               "N", "O", "P", "Q", "R", "S", "T", "U", "V", "W", "X", "Y", "Z">>
LowerCase == <<"a", "b", "c", "d", "e", "f", "g", "h", "i", "j", "k", "l", "m",
               "n", "o", "p", "q", "r", "s", "t", "u", "v", "w", "x", "y", "z">>

LowerChar(ch) ==
  IF \E i \in 1..Len(UpperCase) : UpperCase[i] = ch
  THEN LowerCase[CHOOSE i \in 1..Len(UpperCase) : UpperCase[i] = ch]
  ELSE ch

\* s.toLowerCase()
ToLowerCase(s) == [i \in 1..Len(s) |-> LowerChar(s[i])]

\* s.includes(q)
Includes(s, q) ==
  \E i \in 0..(Len(s) - Len(q)) : SubSeq(s, i + 1, i + Len(q)) = q

\* Variant of the filter predicate that forgets the specialty.
MatchesQuery_DoctorOnly(conv, query) ==
  Includes(ToLowerCase(conv.doctor), ToLowerCase(query))

MatchesQuery(conv, query) ==
  \/ Includes(ToLowerCase(conv.doctor), ToLowerCase(query))
  \/ Includes(ToLowerCase(conv.specialty), ToLowerCase(query))

FilterConversations(convs, query) ==
  SelectSeq(convs, LAMBDA conv : MatchesQuery(conv, query))

filteredConversations == FilterConversations(conversations, searchQuery)

\* The values typed into the search input.
Queries == {<<>>, <<"l", "I">>, <<"n">>}

\* --------------------------------------------------------------- render
\* Left sidebar: the loading line, or one row per filtered conversation.
ConversationPane ==
  IF loadingConversations THEN [kind |-> "loading", rows |-> <<>>]
  ELSE [kind |-> "list", rows |-> filteredConversations]

\* Right side: the loading line, or one bubble per message in state.
MessagePane ==
  IF loadingMessages THEN [kind |-> "loading", rows |-> <<>>]
  ELSE [kind |-> "list", rows |-> messages]

\* ----------------------------------------------------------------- Init
NoRequest == [status |-> "none", data |-> <<>>]

InitMessages ==
  /\ conversations = <<>>
  /\ messages = <<>>
  /\ selectedConversation = Null
  /\ searchQuery = <<>>
  /\ messageText = <<>>
  /\ loadingConversations = TRUE
  /\ loadingMessages = FALSE
  /\ convReq = NoRequest
  /\ msgReqs = <<>>
  /\ lastKey = Null

Init == InitBooking /\ InitMessages

\* -------------------------------------------------------------- actions
\* Variant of loadMessages without the null guard, reading the id with
\* selectedConversation?.id (0 stands for undefined).
LoadMessagesCall_NoNullGuard(sel, reqs) ==
  Append(reqs, [patient |-> PATIENT_ID,
                conversation |-> IF sel = Null THEN 0 ELSE sel[1].id,
                status |-> "sent", data |-> <<>>])

\* loadMessages up to its await, for the selection `sel`: nothing when no
\* conversation is selected, else one getConversationMessages call.
LoadMessagesCall(sel, reqs) ==
  IF sel = Null THEN reqs
  ELSE Append(reqs, [patient |-> PATIENT_ID, conversation |-> sel[1].id,
                     status |-> "sent", data |-> <<>>])

LoadMessagesLoading(sel, cur) == IF sel = Null THEN cur ELSE TRUE

\* useEffect(..., [selectedConversation]): runs loadMessages when the
\* selection differs from the one of the previous render.
SelectedConversationEffect ==
  IF selectedConversation' # selectedConversation
  THEN /\ loadingMessages' = LoadMessagesLoading(selectedConversation',
                                                 loadingMessages)
       /\ msgReqs' = LoadMessagesCall(selectedConversation', msgReqs)
  ELSE /\ loadingMessages' = loadingMessages
       /\ msgReqs' = msgReqs

\* Mount: both effects run; loadConversations issues its call, loadMessages
\* sees no selection.
MountMessages ==
  /\ convReq.status = "none"
  /\ convReq' = [status |-> "sent", data |-> <<>>]
  /\ msgReqs' = LoadMessagesCall(selectedConversation, msgReqs)
  /\ loadingMessages' = LoadMessagesLoading(selectedConversation,
                                            loadingMessages)
  /\ lastKey' = Null
  /\ UNCHANGED <<conversations, messages, selectedConversation, searchQuery,
                 messageText, loadingConversations>>
  /\ UNCHANGED bookingVars

\* The service answers getPatientConversations with a list or a failure.
ServeConversations ==
  /\ convReq.status = "sent"
  /\ \/ \E list \in ConversationLists :
          convReq' = [status |-> "ok", data |-> list]
     \/ convReq' = [status |-> "err", data |-> <<>>]
  /\ lastKey' = Null
  /\ UNCHANGED <<conversations, messages, selectedConversation, searchQuery,
                 messageText, loadingConversations, loadingMessages, msgReqs>>
  /\ UNCHANGED bookingVars

\* Variant of the try branch that auto-selects the last conversation.
LoadConversationsThen_SelectsLast ==
  /\ convReq.status = "ok"
  /\ LET formatted == FormatConversations(convReq.data)
     IN /\ conversations' = formatted
        /\ selectedConversation' =
             IF Len(formatted) > 0 THEN Some(formatted[Len(formatted)])
             ELSE selectedConversation
  /\ loadingConversations' = FALSE
  /\ convReq' = [convReq EXCEPT !.status = "doneOk"]

\* loadConversations after the await, try branch and finally.
LoadConversationsThen ==
  /\ convReq.status = "ok"
  /\ LET formatted == FormatConversations(convReq.data)
     IN /\ conversations' = formatted
        /\ selectedConversation' =
             IF Len(formatted) > 0 THEN Some(formatted[1])
             ELSE selectedConversation
  /\ loadingConversations' = FALSE
  /\ convReq' = [convReq EXCEPT !.status = "doneOk"]

\* Variant of the catch branch without the finally.
LoadConversationsCatch_KeepsLoading ==
  /\ convReq.status = "err"
  /\ conversations' = conversations
  /\ selectedConversation' = selectedConversation
  /\ loadingConversations' = loadingConversations
  /\ convReq' = [convReq EXCEPT !.status = "doneErr"]

\* loadConversations after the await, catch branch and finally.
LoadConversationsCatch ==
  /\ convReq.status = "err"
  /\ conversations' = conversations
  /\ selectedConversation' = selectedConversation
  /\ loadingConversations' = FALSE
  /\ convReq' = [convReq EXCEPT !.status = "doneErr"]

ConversationsResponse ==
  /\ LoadConversationsThen \/ LoadConversationsCatch
  /\ SelectedConversationEffect
  /\ lastKey' = Null
  /\ UNCHANGED <<messages, searchQuery, messageText>>
  /\ UNCHANGED bookingVars

\* onClick={() => setSelectedConversation(conversation)} on a rendered row;
\* setting the conversation already selected changes nothing.
SelectConversation(i) ==
  /\ ConversationPane.kind = "list"
  /\ i \in 1..Len(ConversationPane.rows)
  /\ Some(ConversationPane.rows[i]) # selectedConversation
  /\ Len(msgReqs) <= MaxSelects
  /\ selectedConversation' = Some(ConversationPane.rows[i])
  /\ SelectedConversationEffect
  /\ lastKey' = Null
  /\ UNCHANGED <<conversations, messages, searchQuery, messageText,
                 loadingConversations, convReq>>
  /\ UNCHANGED bookingVars

\* The service answers a getConversationMessages call with the messages the
\* conversation holds at that moment (it holds at least one, and the
\* counterpart may have written since the last call), or a failure.
ServeMessages(i) ==
  /\ i \in 1..Len(msgReqs)
  /\ msgReqs[i].status = "sent"
  /\ \/ \E n \in 1..MaxMsgs :
          msgReqs' = [msgReqs EXCEPT
                        ![i].status = "ok",
                        ![i].data = ConversationMessages(
                                      msgReqs[i].conversation, n)]
     \/ msgReqs' = [msgReqs EXCEPT ![i].status = "err"]
  /\ lastKey' = Null
  /\ UNCHANGED <<conversations, messages, selectedConversation, searchQuery,
                 messageText, loadingConversations, loadingMessages, convReq>>
  /\ UNCHANGED bookingVars

\* Variant of the try branch that drops the response of a conversation that
\* is no longer the selected one.
LoadMessagesThen_DiscardsStale(i) ==
  /\ msgReqs[i].status = "ok"
  /\ messages' =
       IF msgReqs[i].conversation = selectedConversation[1].id
       THEN FormatMessages(msgReqs[i].data)
       ELSE messages
  /\ loadingMessages' = FALSE
  /\ msgReqs' = [msgReqs EXCEPT ![i].status = "doneOk"]

\* loadMessages after the await, try branch and finally.
LoadMessagesThen(i) ==
  /\ msgReqs[i].status = "ok"
  /\ messages' = FormatMessages(msgReqs[i].data)
  /\ loadingMessages' = FALSE
  /\ msgReqs' = [msgReqs EXCEPT ![i].status = "doneOk"]

\* Variant of the catch branch that empties the message list.
LoadMessagesCatch_ClearsMessages(i) ==
  /\ msgReqs[i].status = "err"
  /\ messages' = <<>>
  /\ loadingMessages' = FALSE
  /\ msgReqs' = [msgReqs EXCEPT ![i].status = "doneErr"]

\* loadMessages after the await, catch branch and finally.
LoadMessagesCatch(i) ==
  /\ msgReqs[i].status = "err"
  /\ messages' = messages
  /\ loadingMessages' = FALSE
  /\ msgReqs' = [msgReqs EXCEPT ![i].status = "doneErr"]

MessagesResponse(i) ==
  /\ i \in 1..Len(msgReqs)
  /\ LoadMessagesThen(i) \/ LoadMessagesCatch(i)
  /\ lastKey' = Null
  /\ UNCHANGED <<conversations, selectedConversation, searchQuery,
                 messageText, loadingConversations, convReq>>
  /\ UNCHANGED bookingVars

\* Variant of the search handler that drops a selection the new query hides.
ChangeSearchQuery_DropsHiddenSelection(q) ==
  /\ q # searchQuery
  /\ searchQuery' = q
  /\ selectedConversation' =
       IF /\ selectedConversation # Null
          /\ \A i \in 1..Len(FilterConversations(conversations, q)) :
               FilterConversations(conversations, q)[i] # selectedConversation[1]
       THEN Null
       ELSE selectedConversation
  /\ lastKey' = Null
  /\ UNCHANGED <<conversations, messages, messageText,
                 loadingConversations, loadingMessages, convReq,
                 msgReqs>>
  /\ UNCHANGED bookingVars

\* onChange={(e) => setSearchQuery(e.target.value)}
ChangeSearchQuery(q) ==
  /\ q # searchQuery
  /\ searchQuery' = q
  /\ lastKey' = Null
  /\ UNCHANGED <<conversations, messages, selectedConversation, messageText,
                 loadingConversations, loadingMessages, convReq,
                 msgReqs>>
  /\ UNCHANGED bookingVars

\* The key events tried: Enter, Shift+Enter and a letter.
KeyEvents == {<<"Enter", FALSE>>, <<"Enter", TRUE>>, <<"a", FALSE>>}

\* The character a key inserts into the textarea when its default action
\* is not prevented.
KeyChar(key) == IF key = "Enter" THEN "\n" ELSE key

\* Variant of onKeyDown that does not test e.shiftKey.
OnKeyDown_IgnoresShift(key, shift) ==
  IF key = "Enter"
  THEN messageText' = <<>>
  ELSE messageText' = Append(messageText, KeyChar(key))

\* onKeyDown of the message input, then the key's default action: the
\* textarea inserts the character and onChange stores the new value.
OnKeyDown(key, shift) ==
  IF key = "Enter" /\ ~shift
  THEN messageText' = <<>>
  ELSE messageText' = Append(messageText, KeyChar(key))

KeyDown(key, shift) ==
  /\ (key = "Enter" /\ ~shift) \/ Len(messageText) < MaxText
  /\ OnKeyDown(key, shift)
  /\ lastKey' = Some([key |-> key, shift |-> shift])
  /\ UNCHANGED <<conversations, messages, selectedConversation, searchQuery,
                 loadingConversations, loadingMessages, convReq,
                 msgReqs>>
  /\ UNCHANGED bookingVars

NextMessages ==
  \/ MountMessages
  \/ ServeConversations
  \/ ConversationsResponse
  \/ \E i \in ConvIds : SelectConversation(i)
  \/ \E i \in 1..(MaxSelects + 1) : ServeMessages(i)
  \/ \E i \in 1..(MaxSelects + 1) : MessagesResponse(i)
  \/ \E q \in Queries : ChangeSearchQuery(q)

\* The conversation list and the message pane: loads, selection, search.
SpecMessages == Init /\ [][NextMessages]_vars

\* The message input, while the view loads its conversations and the
\* messages of the conversation it selects by itself.
NextCompose ==
  \/ MountMessages
  \/ ServeConversations
  \/ ConversationsResponse
  \/ \E i \in 1..(MaxSelects + 1) : ServeMessages(i)
  \/ \E i \in 1..(MaxSelects + 1) : MessagesResponse(i)
  \/ \E ev \in KeyEvents : KeyDown(ev[1], ev[2])

SpecCompose == Init /\ [][NextCompose]_vars

\* ---------------------------------------------------- search filter
\* Names and specialties the service may hold, mixed case and empty included.
SampleNames == {<<"A", "b">>, <<"b", "a">>, <<>>}

SampleConversation(id, doctor, specialty) ==
  [id |-> id, doctor |-> doctor, specialty |-> specialty,
   last_message |-> "Hi", time |-> "11:00", unread |-> 0, avatar |-> Null]

\* Conversation lists of up to two conversations over the sample names.
SampleLists ==
  {<<>>}
  \cup {<<SampleConversation(1, d, sp)>> : d \in SampleNames, sp \in SampleNames}
  \cup {<<SampleConversation(1, d, sp[1]), SampleConversation(2, d, sp[2])>> :
          d \in SampleNames, sp \in SampleNames \X SampleNames}
  \cup {<<SampleConversation(1, d[1], sp), SampleConversation(2, d[2], sp)>> :
          d \in SampleNames \X SampleNames, sp \in SampleNames}

QueryAlphabet == {"a", "A", "b"}

\* Every value of the search input of at most MaxQuery characters.
SampleQueries ==
  UNION {[1..n -> QueryAlphabet] : n \in 0..MaxQuery}

\* The service answers getPatientConversations with one of the sample lists.
ServeSampleConversations ==
  /\ convReq.status = "sent"
  /\ \E list \in SampleLists : convReq' = [status |-> "ok", data |-> list]
  /\ lastKey' = Null
  /\ UNCHANGED <<conversations, messages, selectedConversation, searchQuery,
                 messageText, loadingConversations, loadingMessages, msgReqs>>
  /\ UNCHANGED bookingVars

\* The search input over every sample list and every query.
NextFilter ==
  \/ MountMessages
  \/ ServeSampleConversations
  \/ ConversationsResponse
  \/ \E i \in 1..(MaxSelects + 1) : ServeMessages(i)
  \/ \E i \in 1..(MaxSelects + 1) : MessagesResponse(i)
  \/ \E q \in SampleQueries : ChangeSearchQuery(q)

SpecFilter == Init /\ [][NextFilter]_vars

\* ------------------------------------------------- time-of-day filter
\* The periods the time-of-day control offers.
Periods == {"morning", "afternoon", "evening", "night"}

\* Variant of the updater that never removes a period.
ToggleUpdate_AlwaysAdds(prev, period) == Append(prev, period)

\* The updater of toggleTimeOfDay: prev.includes(period) ? prev.filter(p =>
\* p !== period) : [...prev, period]
ToggleUpdate(prev, period) ==
  IF \E i \in 1..Len(prev) : prev[i] = period
  THEN SelectSeq(prev, LAMBDA p : p # period)
  ELSE Append(prev, period)

toggleTimeOfDay(period) ==
  /\ timeOfDay' = ToggleUpdate(timeOfDay, period)
  /\ Len(timeOfDay') <= Cardinality(Periods)
  /\ UNCHANGED <<appointments, loading, error, pool, loads, reserves, notices>>
  /\ UNCHANGED messagesVars

\* The time-of-day control while the view loads its list.
NextToggle ==
  \/ MountBooking
  \/ \E i \in 1..(MaxClicks + 1) : ServeLoad(i)
  \/ \E i \in 1..(MaxClicks + 1) : LoadResponse(i)
  \/ \E period \in Periods : toggleTimeOfDay(period)

SpecToggle == Init /\ [][NextToggle]_vars

NextBooking ==
  \/ MountBooking
  \/ \E i \in 1..(MaxClicks + 1) : ServeLoad(i)
  \/ \E i \in 1..(MaxClicks + 1) : LoadResponse(i)
  \/ \E id \in SlotIds : ClickBookNow(id)
  \/ \E i \in 1..MaxClicks : ServeReserve(i)
  \/ \E i \in 1..MaxClicks : ReserveResponse(i)

SpecBooking == Init /\ [][NextBooking]_vars

\* Every call the booking view issues is answered and the answer delivered;
\* React runs the mount effect.
FairBooking ==
  /\ WF_vars(MountBooking)
  /\ WF_vars(\E i \in 1..(MaxClicks + 1) : ServeLoad(i))
  /\ WF_vars(\E i \in 1..(MaxClicks + 1) : LoadResponse(i))
  /\ WF_vars(\E i \in 1..MaxClicks : ServeReserve(i))
  /\ WF_vars(\E i \in 1..MaxClicks : ReserveResponse(i))

SpecBookingFair == Init /\ [][NextBooking]_vars /\ FairBooking

\* ======================================================= booking claims
ReserveSucceeded(id) ==
  \E i \in 1..Len(reserves) :
    reserves[i].appointment = id /\ reserves[i].status = "doneOk"

\* Every reservation has run its handler and every load has been delivered.
BookingQuiescent ==
  /\ \A i \in 1..Len(reserves) : reserves[i].status \in {"doneOk", "doneErr"}
  /\ \A i \in 1..Len(loads) : loads[i].status = "done"

\* C3: once a reservation of slot s has succeeded and every load triggered
\* by the reservations has completed, s is not among the displayed
\* appointments, for overlapping clicks and any arrival order of reloads.
C3_ReservedSlotNotDisplayed ==
  \A id \in SlotIds :
    (ReserveSucceeded(id) /\ BookingQuiescent) => id \notin RenderedIds

\* C4: a failed reserveAppointment shows the failure notice, issues no
\* getAvailableAppointments call and leaves appointments, loading and error
\* as they were.
C4_ReserveFailureLeavesList ==
  [][\A i \in 1..Len(reserves) :
       (reserves[i].status = "err" /\ reserves'[i].status = "doneErr") =>
         /\ notices' = Append(notices, NoticeReserveFailed)
         /\ loads' = loads
         /\ appointments' = appointments
         /\ loading' = loading
         /\ error' = error]_vars

C4_Witness ==
  \E i \in 1..Len(reserves) :
    /\ reserves[i].status = "doneErr"
    /\ notices[Len(notices)] = NoticeReserveFailed
    /\ Len(appointments) > 0

\* C5: a failed getAvailableAppointments call sets the error message and
\* leaves appointments untouched, and while error is non-null the view shows
\* the error message and no appointment row (hence no Book Now button).
C5_LoadFailureFailsClosed ==
  /\ [][\A i \in 1..Len(loads) :
          (loads[i].status = "err" /\ loads'[i].status = "done") =>
            /\ error' = Some(ErrorLoadingMsg)
            /\ appointments' = appointments]_vars
  /\ [](error # Null =>
          /\ RenderedError = error
          /\ RenderedAppointments = <<>>
          /\ RenderedIds = {})

\* A reload after a reservation failed while appointments were held.
C5_Witness ==
  /\ error = Some(ErrorLoadingMsg)
  /\ Len(appointments) > 0
  /\ RenderedAppointments = <<>>

Loaded == ~loading /\ error = Null
Errored == ~loading /\ error # Null

\* C6 as stated: loaded and errored are both terminal.
C6_BothTerminal ==
  [][(Loaded => Loaded') /\ (Errored => Errored')]_vars

\* C6 amended: errored is terminal and the view never returns to loading;
\* a loaded view stays loaded or becomes errored.
C6_ErroredTerminal ==
  [][/\ Errored => Errored'
     /\ Loaded => (Loaded' \/ Errored')
     /\ ~loading => ~loading']_vars

\* The view was loaded (a reservation was made from the list and succeeded)
\* and is now errored, with nothing left in flight.
C6_Witness ==
  /\ Errored
  /\ BookingQuiescent
  /\ \E id \in SlotIds : ReserveSucceeded(id)

\* ===================================================== messaging claims
MessageFetchFailed ==
  \E i \in 1..Len(msgReqs) : msgReqs[i].status \in {"err", "doneErr"}

\* C1: whenever the message list is rendered and a conversation is
\* selected, the messages in state are those a getConversationMessages call
\* returned for the selected conversation's id (no fetch having failed),
\* whatever the selection changes and the arrival order of the responses.
C1_MessagesMatchSelection ==
  (~loadingMessages /\ selectedConversation # Null /\ ~MessageFetchFailed) =>
    \E i \in 1..Len(msgReqs) :
      /\ msgReqs[i].conversation = selectedConversation[1].id
      /\ msgReqs[i].status = "doneOk"
      /\ messages = FormatMessages(msgReqs[i].data)

\* C2: after selecting A, then B, then A again, once the three fetches have
\* all been delivered (successfully, in any order) A is selected and the
\* messages are exactly those of the last fetch issued for A.
C2_SelectABA ==
  (/\ Len(msgReqs) = 3
   /\ msgReqs[1].conversation = msgReqs[3].conversation
   /\ msgReqs[2].conversation # msgReqs[1].conversation
   /\ \A i \in 1..3 : msgReqs[i].status = "doneOk") =>
    /\ selectedConversation # Null
    /\ selectedConversation[1].id = msgReqs[3].conversation
    /\ messages = FormatMessages(msgReqs[3].data)

\* C7: when getPatientConversations succeeds with a non-empty list and no
\* conversation is selected, the first conversation of the list becomes the
\* selected one and exactly one getConversationMessages call is issued, for
\* that conversation's id.
C7_AutoSelectFirst ==
  [][(/\ convReq.status = "ok"
      /\ convReq'.status = "doneOk"
      /\ Len(convReq.data) > 0
      /\ selectedConversation = Null) =>
       /\ selectedConversation' = Some(FormatConversation(convReq.data[1]))
       /\ msgReqs' = Append(msgReqs,
                            [patient |-> PATIENT_ID,
                             conversation |-> convReq.data[1].id,
                             status |-> "sent", data |-> <<>>])
       /\ loadingMessages']_vars

C7_Witness ==
  /\ convReq.status = "doneOk"
  /\ Len(conversations) = 2
  /\ selectedConversation = Some(conversations[1])
  /\ Len(msgReqs) = 1
  /\ msgReqs[1].conversation = conversations[1].id

\* C8: once getPatientConversations has returned the empty list, no
\* conversation is ever selected, no getConversationMessages call is ever
\* issued and messages stays empty.
C8_EmptyListNoFetch ==
  (convReq.status \in {"ok", "doneOk"} /\ convReq.data = <<>>) =>
    /\ selectedConversation = Null
    /\ msgReqs = <<>>
    /\ messages = <<>>
    /\ ~loadingMessages

C8_Witness ==
  /\ convReq.status = "doneOk"
  /\ convReq.data = <<>>
  /\ ~loadingConversations
  /\ searchQuery # <<>>

\* C9: once getPatientConversations has failed and the failure is handled,
\* the conversation list is empty, nothing is selected, no message fetch was
\* issued, loadingConversations is false and the view shows two empty lists
\* and no error.
C9_ConversationsFailureSilent ==
  (convReq.status = "doneErr") =>
    /\ conversations = <<>>
    /\ selectedConversation = Null
    /\ msgReqs = <<>>
    /\ messages = <<>>
    /\ ~loadingConversations
    /\ ConversationPane = [kind |-> "list", rows |-> <<>>]
    /\ MessagePane = [kind |-> "list", rows |-> <<>>]

C9_Witness ==
  /\ convReq.status = "doneErr"
  /\ ~loadingConversations
  /\ conversations = <<>>

SameIgnoringCase(a, b) ==
  a = b \/ \E i \in 1..Len(UpperCase) : {a, b} = {UpperCase[i], LowerCase[i]}

\* q occurs in s as a run of consecutive characters, case ignored.
ContainsIgnoringCase(s, q) ==
  \E off \in 0..(Len(s) - Len(q)) :
    \A k \in 1..Len(q) : SameIgnoringCase(s[off + k], q[k])

\* The positions of the conversations the query keeps.
KeptPositions ==
  {i \in 1..Len(conversations) :
     \/ ContainsIgnoringCase(conversations[i].doctor, searchQuery)
     \/ ContainsIgnoringCase(conversations[i].specialty, searchQuery)}

\* C11: the filtered list is exactly the conversations whose doctor name or
\* specialty contains the query ignoring case, in the original order; the
\* empty query keeps the full list; changing the query issues no call and
\* changes neither conversations, the selection nor messages.
C11_FilterBySubstring ==
  /\ [](/\ Len(filteredConversations) = Cardinality(KeptPositions)
        /\ \A i \in KeptPositions :
             filteredConversations[Cardinality({k \in KeptPositions : k <= i})]
               = conversations[i]
        /\ (searchQuery = <<>> => filteredConversations = conversations))
  /\ [][searchQuery' # searchQuery =>
          /\ UNCHANGED <<conversations, selectedConversation, messages>>
          /\ UNCHANGED <<convReq, msgReqs, loads, reserves>>]_vars

\* A mixed-case query keeps only the second of two conversations, which
\* matches by its specialty and not by its name.
C11_Witness ==
  /\ Len(conversations) = 2
  /\ filteredConversations = <<conversations[2]>>
  /\ searchQuery = <<"b", "A">>
  /\ ~ContainsIgnoringCase(conversations[2].doctor, searchQuery)
  /\ selectedConversation = Some(conversations[1])
  /\ Len(messages) > 0

\* The periods that are members of a selection.
Members(sel) == {sel[i] : i \in 1..Len(sel)}

\* C12: for every selection and period, one toggle adds the period if it is
\* absent and removes it if present, leaving every other period's membership
\* alone, and a second toggle restores the original membership; the empty
\* selection is reached and can be toggled like any other.
C12_ToggleTwiceRestores ==
  /\ [](\A p \in Periods :
          LET once == ToggleUpdate(timeOfDay, p)
              twice == ToggleUpdate(once, p)
          IN /\ Members(twice) = Members(timeOfDay)
             /\ p \in Members(timeOfDay) =>
                  Members(once) = Members(timeOfDay) \ {p}
             /\ p \notin Members(timeOfDay) =>
                  Members(once) = Members(timeOfDay) \cup {p})
  /\ [][timeOfDay' # timeOfDay =>
          \E p \in Periods :
            /\ (p \in Members(timeOfDay)) # (p \in Members(timeOfDay'))
            /\ Members(timeOfDay') \ {p} = Members(timeOfDay) \ {p}]_vars

\* The empty selection, reached by toggling the initial period off.
C12_Witness ==
  /\ timeOfDay = <<>>
  /\ Len(loads) > 0

\* C13: every Book Now click issues exactly one reserveAppointment call,
\* with patient 3 and the id of a displayed slot, and a click is accepted
\* for every displayed slot whatever is in flight, so a second click on a
\* slot before the first response issues a second call for the same pair.
C13_OneRequestPerClick ==
  /\ [][Len(reserves') > Len(reserves) =>
          /\ Len(reserves') = Len(reserves) + 1
          /\ SubSeq(reserves', 1, Len(reserves)) = reserves
          /\ reserves'[Len(reserves')].patient = 3
          /\ reserves'[Len(reserves')].appointment \in RenderedIds
          /\ reserves'[Len(reserves')].status = "sent"]_vars
  /\ [](\A id \in RenderedIds :
          Len(reserves) < MaxClicks => ENABLED ClickBookNow(id))

\* Two calls for the same slot, both awaiting the service.
C13_Witness ==
  /\ Len(reserves) >= 2
  /\ reserves[1].appointment = reserves[2].appointment
  /\ reserves[1].patient = 3 /\ reserves[2].patient = 3
  /\ reserves[1].status = "sent" /\ reserves[2].status = "sent"

\* The step delivers the successful response of fetch i to loadMessages.
ArrivesOk(i) == msgReqs[i].status = "ok" /\ msgReqs'[i].status = "doneOk"

\* The statuses a fetch can move to in one step.
FetchSuccessors(st) ==
  CASE st = "sent" -> {"sent", "ok", "err"}
    [] st = "ok" -> {"ok", "doneOk"}
    [] st = "err" -> {"err", "doneErr"}
    [] OTHER -> {st}

\* C14: messages always is the projection of the successful response that
\* arrived last (empty before the first), whatever the order the fetches
\* were issued in and whichever conversation is selected now; no fetch is
\* cancelled and no response is discarded.
C14_LastArrivalWins ==
  /\ [][/\ \A i \in 1..Len(msgReqs) :
             ArrivesOk(i) => messages' = FormatMessages(msgReqs[i].data)
        /\ (\A i \in 1..Len(msgReqs) : ~ArrivesOk(i)) => messages' = messages
        /\ Len(msgReqs') >= Len(msgReqs)
        /\ \A i \in 1..Len(msgReqs) :
             /\ msgReqs'[i].conversation = msgReqs[i].conversation
             /\ msgReqs'[i].status \in FetchSuccessors(msgReqs[i].status)]_vars
  /\ []((\A i \in 1..Len(msgReqs) : msgReqs[i].status # "doneOk") =>
          messages = <<>>)
  /\ [](\A i \in 1..Len(msgReqs) :
          msgReqs[i].status \in {"ok", "err"} => ENABLED MessagesResponse(i))

\* Three fetches were issued for A, B, A; all arrived, B's last: A is
\* selected and B's messages are in state.
C14_Witness ==
  /\ Len(msgReqs) = 3
  /\ \A i \in 1..3 : msgReqs[i].status = "doneOk"
  /\ selectedConversation[1].id = msgReqs[3].conversation
  /\ msgReqs[2].conversation # msgReqs[3].conversation
  /\ messages = FormatMessages(msgReqs[2].data)

\* C15: from a change of the selection until the response of the fetch
\* issued for it arrives, loadingMessages is true and the message list is
\* not rendered, also when responses of earlier fetches arrive in between.
\* (The fetch of the current selection is the last one issued.)
C15_LoadingUntilOwnResponse ==
  (Len(msgReqs) > 0 /\ msgReqs[Len(msgReqs)].status \in {"sent", "ok", "err"}) =>
    /\ loadingMessages
    /\ MessagePane.kind = "loading"

NoticeCount(text) ==
  Cardinality({i \in 1..Len(notices) : notices[i] = text})

ReserveCount(st) ==
  Cardinality({i \in 1..Len(reserves) : reserves[i].status = st})

\* C16: every handled Book Now click has produced exactly one notice, the
\* confirmation if and only if its reservation succeeded and the failure
\* notice if and only if it failed; a failed reload produces no notice and
\* is reported through the error state.
C16_OneNoticePerClick ==
  /\ [](/\ NoticeCount(NoticeReserved) = ReserveCount("doneOk")
        /\ NoticeCount(NoticeReserveFailed) = ReserveCount("doneErr")
        /\ Len(notices) = ReserveCount("doneOk") + ReserveCount("doneErr"))
  /\ [][\A i \in 1..Len(loads) :
          (loads[i].status = "err" /\ loads'[i].status = "done") =>
            /\ notices' = notices
            /\ error' = Some(ErrorLoadingMsg)]_vars

\* One reservation succeeded, its reload failed: one confirmation notice
\* and the error state.
C16_Witness ==
  /\ notices = <<NoticeReserved>>
  /\ ReserveCount("doneOk") = 1
  /\ error = Some(ErrorLoadingMsg)
  /\ BookingQuiescent

\* The step delivers the response of load i to loadAppointments.
LoadArrives(i, st) == loads[i].status = st /\ loads'[i].status = "done"

\* C17: error is never cleared: a failed load sets it, it then keeps its
\* value in every later state, and a successful reload delivered afterwards
\* replaces appointments while the view keeps rendering the error and no
\* appointment row.
C17_ErrorNeverCleared ==
  [][/\ \A i \in 1..Len(loads) : LoadArrives(i, "err") => error' # Null
     /\ error # Null =>
          /\ error' = error
          /\ RenderedError' = error
          /\ RenderedAppointments' = <<>>
          /\ \A i \in 1..Len(loads) :
               LoadArrives(i, "ok") =>
                 appointments' = FormatAppointments(loads[i].data)]_vars

\* Two reservations succeeded, one reload failed and the other delivered
\* the empty list: the error is shown.
C17_Witness ==
  /\ error # Null
  /\ appointments = <<>>
  /\ ReserveCount("doneOk") >= 2
  /\ BookingQuiescent
  /\ BookingView = "error"

\* The step delivers the failure of fetch i to loadMessages.
ArrivesErr(i) == msgReqs[i].status = "err" /\ msgReqs'[i].status = "doneErr"

\* C18: when the fetch for a selection fails, messages keeps the value it
\* had, loadingMessages becomes false and the selection is unchanged, so the
\* list is rendered with the messages that were there before.
C18_FetchFailureKeepsMessages ==
  [][\A i \in 1..Len(msgReqs) :
       ArrivesErr(i) =>
         /\ messages' = messages
         /\ ~loadingMessages'
         /\ selectedConversation' = selectedConversation
         /\ conversations' = conversations
         /\ MessagePane' = [kind |-> "list", rows |-> messages]]_vars

\* The first conversation's messages shown under the second, whose fetch
\* failed.
C18_Witness ==
  /\ Len(msgReqs) = 2
  /\ msgReqs[1].status = "doneOk"
  /\ msgReqs[2].status = "doneErr"
  /\ selectedConversation[1].id = msgReqs[2].conversation
  /\ msgReqs[1].conversation # msgReqs[2].conversation
  /\ MessagePane = [kind |-> "list", rows |-> FormatMessages(msgReqs[1].data)]

\* C19: the selected conversation is null or an element of conversations;
\* nothing is selected while the conversations are loading; a selection is
\* never reset to null, and a change of the search query leaves it as it is
\* even when the query filters it out of the rendered list.
C19_SelectionInList ==
  /\ [](/\ selectedConversation # Null =>
             \E i \in 1..Len(conversations) :
               conversations[i] = selectedConversation[1]
        /\ loadingConversations => selectedConversation = Null)
  /\ [][/\ selectedConversation # Null => selectedConversation' # Null
        /\ searchQuery' # searchQuery =>
             selectedConversation' = selectedConversation]_vars

\* A conversation is selected and the query hides it from the list.
C19_Witness ==
  /\ selectedConversation # Null
  /\ ConversationPane.kind = "list"
  /\ \A i \in 1..Len(ConversationPane.rows) :
       ConversationPane.rows[i] # selectedConversation[1]
  /\ Len(ConversationPane.rows) > 0

\* C20: loading starts true, is true exactly until the first
\* getAvailableAppointments call has been delivered (success or failure) and
\* never becomes true again, so reloads show no loading state; when every
\* call is answered the view eventually leaves the loading state.
C20_LoadingOnlyAtStart ==
  /\ [](loading <=> (Len(loads) = 0 \/ loads[1].status # "done"))
  /\ [][~loading => ~loading']_vars
  /\ <>(~loading)

\* A reload is in flight and the list, not the loading line, is shown.
C20_Witness ==
  /\ ~loading
  /\ Len(loads) >= 2
  /\ loads[Len(loads)].status = "sent"
  /\ BookingView = "list"

====
